---------------------------- MODULE Spec2Model ----------------------------
(***************************************************************************)
(* Two concurrent schedulers of the repository.                            *)
(*                                                                         *)
(*  - the quantum-task scheduler (src/unnamed/part_000): a priority queue  *)
(*    of QuantumTask, worker threads running process_quantum_tasks against *)
(*    the counting semaphore quantum_processors, and a thread that marks   *)
(*    one processor as failed;                                             *)
(*  - the monitoring server (src/task_2.cpp): stations pushing             *)
(*    MonitoringData, handlers processing it against server_capacity, and  *)
(*    load_monitor adapting the capacity and the emergency mode.           *)
(*                                                                         *)
(* std::priority_queue is modelled by its contract: top() is an element    *)
(* that the comparator orders before no other element of the queue.  The   *)
(* queue is a bag, so which of several equal elements is returned is left  *)
(* open.  sleep_for is a step that takes no time.                          *)
(***************************************************************************)
EXTENDS Integers, Sequences, FiniteSets, Bags, TLC

(***************************************************************************)
(* Bounds of the model.                                                    *)
(***************************************************************************)
\* worker threads of the scheduler fed with arbitrary tasks (main creates 10)
NumWorkers == 3
\* tasks submitted to the scheduler fed with arbitrary tasks
MaxTasks == 1
\* worker threads of the program as wired in main (main creates 10)
MainWorkers == 5
\* how many of main's add_quantum_task calls are made
MainTasks == 3
\* rand() % 100 is drawn from 0..MaxRand in the scheduler fed with arbitrary
\* tasks, and from 0..MainRand in the program as wired in main
MaxRand == 1
MainRand == 0

\* monitoring stations (main creates 10) and data handlers (main creates 5)
NumStations == 1
NumHandlers == 2
\* data handlers in the runs that look at what the stations drop
AdmissionHandlers == 1
\* the stations stop pushing when data_queue holds MaxQueue items
MaxQueue == 1
\* load_monitor stops before emergency_counter would pass MaxEmergencyCount
MaxEmergencyCount == 5
\* items pushed before the pops start in the push-then-pop runs of the queues
MaxPushes == 3

(***************************************************************************)
(* Program constants of the quantum-task scheduler.                        *)
(***************************************************************************)
\* std::counting_semaphore<4> quantum_processors(4)
NumProcessors == 4
\* if (task.required_qubits > 5 && !task.is_split)
SplitThreshold == 5
\* new_task.id = original_task.id * 100 + rand() % 100
IdFactor == 100
\* std::atomic<int> failed_processor(-1)
NoFailure == -1
\* std::thread failure_thread(simulate_processor_failure, 2)
FailingProcessor == 2

(***************************************************************************)
(* Program constants of the monitoring server.                             *)
(***************************************************************************)
\* std::counting_semaphore<5> server_capacity(5)
ServerCapacity == 5
\* std::atomic<int> active_handlers(5), and active_handlers > 5
MinHandlers == 5
\* active_handlers < 10
MaxHandlers == 10
\* (5 - server_capacity.try_acquire()) * 20
LoadBase == 5
LoadStep == 20
\* for (int i = 0; i < 4; i++)
ProbeTries == 4
\* load > 80, and current_load > 80 in monitoring_station
GrowLoad == 80
\* load < 50
ShrinkLoad == 50
\* load > 95
EmergencyLoad == 95
\* emergency_counter > 3
EmergencySamples == 3
\* data.priority > 3 under overload, data.priority > 2 in emergency mode
OverloadCutoff == 3
EmergencyCutoff == 2

\* no thread holds the mutex
NoThread == -1

Max(a, b) == IF a >= b THEN a ELSE b

WorkerIds == 0 .. (Max(NumWorkers, MainWorkers) - 1)

\* int division of C++: the quotient is truncated towards zero
CDiv(a, b) ==
    IF (a >= 0) = (b > 0) THEN a \div b ELSE -((-a) \div b)

(***************************************************************************)
(* struct QuantumTask                                                      *)
(***************************************************************************)
QuantumTask(id, priority, is_critical, duration, qubits, is_split) ==
    [id |-> id, priority |-> priority, is_critical |-> is_critical,
     duration |-> duration, required_qubits |-> qubits, is_split |-> is_split]

\* the value of a worker's local `task` before anything is popped into it
NoTask == QuantumTask(0, 0, FALSE, 0, 0, FALSE)

\* ComparePriority with the test of is_critical turned round
ComparePriorityCriticalLast(t1, t2) ==
    IF t1.priority # t2.priority THEN t1.priority > t2.priority
    ELSE IF t1.is_critical # t2.is_critical THEN t1.is_critical
    ELSE t1.duration > t2.duration

\* ComparePriority of QuantumTask: TRUE when t1 is ordered before t2, that is
\* when t2 is to be popped first
ComparePriority(t1, t2) ==
    IF t1.priority # t2.priority THEN t1.priority > t2.priority
    ELSE IF t1.is_critical # t2.is_critical THEN ~t1.is_critical
    ELSE t1.duration > t2.duration

\* the arguments of main's add_quantum_task calls, in order
MainCalls ==
    << <<1, 1, TRUE, 2000, 8>>,
       <<2, 3, FALSE, 3000, 6>>,
       <<3, 2, FALSE, 1500, 4>>,
       <<4, 1, FALSE, 2500, 10>>,
       <<5, 4, TRUE, 1000, 3>>,
       <<6, 2, TRUE, 1800, 7>>,
       <<7, 3, FALSE, 2200, 5>>,
       <<8, 1, TRUE, 500, 2>>,
       <<9, 5, FALSE, 4000, 9>>,
       <<10, 2, FALSE, 1200, 3>> >>

\* the values the fields of a submitted task are drawn from
Priorities == {1, 2}
Durations == {1, 4}
Qubits == {3, 10, 12}

(***************************************************************************)
(* struct MonitoringData; the payload is a text made of station_id.        *)
(***************************************************************************)
MonitoringData(station_id, priority, is_critical, size) ==
    [station_id |-> station_id, priority |-> priority,
     is_critical |-> is_critical, size |-> size]

\* the value of a station's local `data` between two rounds
NoData == MonitoringData(0, 0, FALSE, 0)

\* ComparePriority of MonitoringData
CompareDataPriority(d1, d2) ==
    IF d1.priority # d2.priority THEN d1.priority > d2.priority
    ELSE IF d1.is_critical # d2.is_critical THEN ~d1.is_critical
    ELSE d1.size > d2.size

\* the values a station draws: priority_dist(1, 5) is cut to
\* StationPriorities and size_dist(100, 1000) to StationSizes; in the runs
\* that look at the server the stations send data of one kind, which is
\* dropped under overload and in emergency mode and is pushed otherwise
StationPriorities == {2, 3, 4}
StationSizes == {100}
ServerPriorities == {4}
ServerCriticals == {FALSE}
\* the sizes pushed in the push-then-pop runs
RunSizes == {100, 1000}

StationIds == 1 .. NumStations
HandlerIds == 1 .. Max(NumHandlers, AdmissionHandlers)

VARIABLES
    \* the quantum-task scheduler
    task_queue,          \* bag of QuantumTask
    quantum_processors,  \* counter of the semaphore
    queue_mutex,         \* the worker holding it, or NoThread
    output_mutex,        \* the worker holding it, or NoThread
    failed_processor,
    pc,                  \* where each worker thread is
    task,                \* each worker's local `task`
    main_pc,             \* where main is
    n_added,             \* add_quantum_task calls made
    n_spawned,           \* worker threads created
    fail_pc,             \* where the failure thread is
    \* history of the quantum-task scheduler
    pushed,              \* bag of every task ever pushed
    completed,           \* bag of the tasks reported completed
    failed_tasks,        \* bag of the tasks reported failed
    split_parents,       \* bag of the tasks replaced by their two halves
    \* the monitoring server
    data_queue,          \* bag of MonitoringData
    server_capacity,     \* counter of the semaphore
    cout_mutex,          \* the station holding it, or NoThread
    current_load,
    emergency_mode,
    active_handlers,
    emergency_counter,   \* the static counter of load_monitor
    station_pc,          \* where each station is
    station_data,        \* each station's local `data`
    handler_pc,          \* where each handler is
    monitor_pc,          \* where load_monitor is
    load,                \* the local `load` of load_monitor
    probe_i,             \* the local `i` of load_monitor
    aborted,             \* the process was ended by a failed library check
    \* history of the monitoring server
    streak,              \* how many of the latest samples in a row were > 95
    \* push-then-pop runs of the two queues
    run_queue,           \* the queue the run is made on
    popping,             \* the pushes are over
    popped               \* the items popped, in order

qvars == <<task_queue, quantum_processors, queue_mutex, output_mutex,
           failed_processor, pc, task, main_pc, n_added, n_spawned, fail_pc,
           pushed, completed, failed_tasks, split_parents>>

mvars == <<data_queue, server_capacity, cout_mutex, current_load,
           emergency_mode, active_handlers, emergency_counter, station_pc,
           station_data, handler_pc, monitor_pc, load, probe_i, aborted,
           streak>>

rvars == <<run_queue, popping, popped>>

vars == <<qvars, mvars, rvars>>

(***************************************************************************)
(* std::priority_queue                                                     *)
(***************************************************************************)
Push(q, t) == q (+) SetToBag({t})

Remove(q, t) == q (-) SetToBag({t})

IsEmpty(q) == BagToSet(q) = {}

\* the elements top() of task_queue may return: those its comparator orders
\* before no element of the queue
TopTask(q) ==
    {t \in BagToSet(q) : \A x \in BagToSet(q) : ~ComparePriority(t, x)}

\* the elements top() of data_queue may return
TopData(q) ==
    {d \in BagToSet(q) : \A x \in BagToSet(q) : ~CompareDataPriority(d, x)}

(***************************************************************************)
(* Initial state of the quantum-task scheduler: the globals as declared.   *)
(***************************************************************************)
InitQ ==
    /\ task_queue = EmptyBag
    /\ quantum_processors = NumProcessors
    /\ queue_mutex = NoThread
    /\ output_mutex = NoThread
    /\ failed_processor = NoFailure
    /\ pc = [w \in WorkerIds |-> "unborn"]
    /\ task = [w \in WorkerIds |-> NoTask]
    /\ main_pc = "adding"
    /\ n_added = 0
    /\ n_spawned = 0
    /\ fail_pc = "unborn"
    /\ pushed = EmptyBag
    /\ completed = EmptyBag
    /\ failed_tasks = EmptyBag
    /\ split_parents = EmptyBag

\* the processor a worker is bound to: std::thread(process_quantum_tasks, i % 4)
ProcessorOf(w) == w % NumProcessors

(***************************************************************************)
(* add_quantum_task, called by main before any thread exists: it takes     *)
(* queue_mutex and output_mutex and gives both back.                       *)
(***************************************************************************)
add_quantum_task(id, priority, is_critical, duration, qubits) ==
    /\ main_pc = "adding"
    /\ queue_mutex = NoThread
    /\ output_mutex = NoThread
    /\ LET t == QuantumTask(id, priority, is_critical, duration, qubits, FALSE)
       IN /\ task_queue' = Push(task_queue, t)
          /\ pushed' = Push(pushed, t)
    /\ n_added' = n_added + 1
    /\ UNCHANGED <<mvars, rvars, quantum_processors, queue_mutex, output_mutex,
                   failed_processor, pc, task, main_pc, n_spawned, fail_pc,
                   completed, failed_tasks, split_parents>>

\* a task with any fields is submitted; ids are given in order as in main
AddTask ==
    /\ n_added < MaxTasks
    /\ \E p \in Priorities, c \in BOOLEAN, d \in Durations, q \in Qubits :
          add_quantum_task(n_added + 1, p, c, d, q)

\* the next of main's own calls
AddMainTask ==
    /\ n_added < MainTasks
    /\ LET a == MainCalls[n_added + 1]
       IN add_quantum_task(a[1], a[2], a[3], a[4], a[5])

\* main goes on to create the threads
StartThreads ==
    /\ main_pc = "adding"
    /\ main_pc' = "spawning"
    /\ UNCHANGED <<mvars, rvars, task_queue, quantum_processors, queue_mutex, output_mutex,
                   failed_processor, pc, task, n_added, n_spawned, fail_pc,
                   pushed, completed, failed_tasks, split_parents>>

\* threads.push_back(std::thread(process_quantum_tasks, i % 4)), then the
\* failure thread once n workers exist
SpawnThread(n) ==
    /\ main_pc = "spawning"
    /\ IF n_spawned < n
       THEN /\ pc' = [pc EXCEPT ![n_spawned] = "pop"]
            /\ n_spawned' = n_spawned + 1
            /\ UNCHANGED <<fail_pc, main_pc>>
       ELSE /\ fail_pc' = "sleeping"
            /\ main_pc' = "joining"
            /\ UNCHANGED <<pc, n_spawned>>
    /\ UNCHANGED <<mvars, rvars, task_queue, quantum_processors, queue_mutex, output_mutex,
                   failed_processor, task, n_added,
                   pushed, completed, failed_tasks, split_parents>>

\* t.join() for every worker, then failure_thread.join()
JoinThreads ==
    /\ main_pc = "joining"
    /\ \A w \in WorkerIds : pc[w] \in {"unborn", "done"}
    /\ fail_pc = "done"
    /\ main_pc' = "exited"
    /\ UNCHANGED <<mvars, rvars, task_queue, quantum_processors, queue_mutex, output_mutex,
                   failed_processor, pc, task, n_added, n_spawned, fail_pc,
                   pushed, completed, failed_tasks, split_parents>>

(***************************************************************************)
(* process_quantum_tasks and process_quantum_task, one worker thread w.    *)
(***************************************************************************)
main_vars == <<main_pc, n_added, n_spawned>>

\* NeedsSplit without the test of is_split
NeedsSplitAgain(t) == t.required_qubits > SplitThreshold

\* if (task.required_qubits > 5 && !task.is_split)
NeedsSplit(t) == t.required_qubits > SplitThreshold /\ ~t.is_split

\* split_task, r being the value of rand() % 100
split_task(original_task, r) ==
    [original_task EXCEPT
        !.id = original_task.id * IdFactor + r,
        !.duration = CDiv(original_task.duration, 2),
        !.required_qubits = CDiv(original_task.required_qubits, 2),
        !.is_split = TRUE]

\* Pop that tries again when the queue is empty, as data_handler does
PopRetry(w) ==
    /\ pc[w] = "pop"
    /\ queue_mutex = NoThread
    /\ IF IsEmpty(task_queue)
       THEN UNCHANGED <<pc, task_queue, task>>
       ELSE \E t \in TopTask(task_queue) :
               /\ task_queue' = Remove(task_queue, t)
               /\ task' = [task EXCEPT ![w] = t]
               /\ pc' = [pc EXCEPT ![w] =
                            IF NeedsSplit(t) THEN "split_print" ELSE "dispatch"]
    /\ UNCHANGED <<mvars, rvars, quantum_processors, queue_mutex, output_mutex,
                   failed_processor, main_vars, fail_pc,
                   pushed, completed, failed_tasks, split_parents>>

\* Pop that takes any task of the queue, not one top() may return
PopAny(w) ==
    /\ pc[w] = "pop"
    /\ queue_mutex = NoThread
    /\ IF IsEmpty(task_queue)
       THEN /\ pc' = [pc EXCEPT ![w] = "done"]
            /\ UNCHANGED <<task_queue, task>>
       ELSE \E t \in BagToSet(task_queue) :
               /\ task_queue' = Remove(task_queue, t)
               /\ task' = [task EXCEPT ![w] = t]
               /\ pc' = [pc EXCEPT ![w] =
                            IF NeedsSplit(t) THEN "split_print" ELSE "dispatch"]
    /\ UNCHANGED <<mvars, rvars, quantum_processors, queue_mutex, output_mutex,
                   failed_processor, main_vars, fail_pc,
                   pushed, completed, failed_tasks, split_parents>>

\* queue_mutex is taken; if the queue is empty it is unlocked and the loop is
\* left; otherwise top(), pop(), unlock, and the test whether the task is to
\* be split.  Nothing blocks while the mutex is held: one step
Pop(w) ==
    /\ pc[w] = "pop"
    /\ queue_mutex = NoThread
    /\ IF IsEmpty(task_queue)
       THEN /\ pc' = [pc EXCEPT ![w] = "done"]
            /\ UNCHANGED <<task_queue, task>>
       ELSE \E t \in TopTask(task_queue) :
               /\ task_queue' = Remove(task_queue, t)
               /\ task' = [task EXCEPT ![w] = t]
               /\ pc' = [pc EXCEPT ![w] =
                            IF NeedsSplit(t) THEN "split_print" ELSE "dispatch"]
    /\ UNCHANGED <<mvars, rvars, quantum_processors, queue_mutex, output_mutex,
                   failed_processor, main_vars, fail_pc,
                   pushed, completed, failed_tasks, split_parents>>

\* std::lock_guard<std::mutex> out_lock(output_mutex), kept to the end of the
\* branch, and the message that the task is split
SplitPrint(w) ==
    /\ pc[w] = "split_print"
    /\ output_mutex = NoThread
    /\ output_mutex' = w
    /\ pc' = [pc EXCEPT ![w] = "split_lock"]
    /\ UNCHANGED <<mvars, rvars, task_queue, quantum_processors, queue_mutex,
                   failed_processor, task, main_vars, fail_pc,
                   pushed, completed, failed_tasks, split_parents>>

\* queue_lock.lock(), with output_mutex held
SplitLock(w) ==
    /\ pc[w] = "split_lock"
    /\ queue_mutex = NoThread
    /\ queue_mutex' = w
    /\ pc' = [pc EXCEPT ![w] = "split_push"]
    /\ UNCHANGED <<mvars, rvars, task_queue, quantum_processors, output_mutex,
                   failed_processor, task, main_vars, fail_pc,
                   pushed, completed, failed_tasks, split_parents>>

\* SplitPush that leaves output_mutex locked
SplitPushKeepsOutput(w, max_rand) ==
    /\ pc[w] = "split_push"
    /\ queue_mutex = w
    /\ output_mutex = w
    /\ \E r1 \in 0 .. max_rand, r2 \in 0 .. max_rand :
          LET sub_task1 == split_task(task[w], r1)
              sub_task2 == split_task(task[w], r2)
          IN /\ task_queue' = Push(Push(task_queue, sub_task1), sub_task2)
             /\ pushed' = Push(Push(pushed, sub_task1), sub_task2)
    /\ split_parents' = Push(split_parents, task[w])
    /\ queue_mutex' = NoThread
    /\ task' = [task EXCEPT ![w] = NoTask]
    /\ pc' = [pc EXCEPT ![w] = "pop"]
    /\ UNCHANGED <<mvars, rvars, quantum_processors, output_mutex,
                   failed_processor, main_vars, fail_pc,
                   completed, failed_tasks>>

\* SplitPush that leaves queue_mutex locked
SplitPushNoUnlock(w, max_rand) ==
    /\ pc[w] = "split_push"
    /\ queue_mutex = w
    /\ output_mutex = w
    /\ \E r1 \in 0 .. max_rand, r2 \in 0 .. max_rand :
          LET sub_task1 == split_task(task[w], r1)
              sub_task2 == split_task(task[w], r2)
          IN /\ task_queue' = Push(Push(task_queue, sub_task1), sub_task2)
             /\ pushed' = Push(Push(pushed, sub_task1), sub_task2)
    /\ split_parents' = Push(split_parents, task[w])
    /\ output_mutex' = NoThread
    /\ task' = [task EXCEPT ![w] = NoTask]
    /\ pc' = [pc EXCEPT ![w] = "pop"]
    /\ UNCHANGED <<mvars, rvars, quantum_processors, queue_mutex,
                   failed_processor, main_vars, fail_pc,
                   completed, failed_tasks>>

\* the two halves are made and pushed, queue_mutex is unlocked and `continue`
\* gives output_mutex back
SplitPush(w, max_rand) ==
    /\ pc[w] = "split_push"
    /\ queue_mutex = w
    /\ output_mutex = w
    /\ \E r1 \in 0 .. max_rand, r2 \in 0 .. max_rand :
          LET sub_task1 == split_task(task[w], r1)
              sub_task2 == split_task(task[w], r2)
          IN /\ task_queue' = Push(Push(task_queue, sub_task1), sub_task2)
             /\ pushed' = Push(Push(pushed, sub_task1), sub_task2)
    /\ split_parents' = Push(split_parents, task[w])
    /\ queue_mutex' = NoThread
    /\ output_mutex' = NoThread
    /\ task' = [task EXCEPT ![w] = NoTask]
    /\ pc' = [pc EXCEPT ![w] = "pop"]
    /\ UNCHANGED <<mvars, rvars, quantum_processors, failed_processor, main_vars, fail_pc,
                   completed, failed_tasks>>

\* Dispatch without the test of failed_processor
DispatchNoCheck(w) ==
    /\ pc[w] = "dispatch"
    /\ pc' = [pc EXCEPT ![w] = "acquire"]
    /\ UNCHANGED <<mvars, rvars, task_queue, quantum_processors, queue_mutex,
                   output_mutex, failed_processor, task, main_vars, fail_pc,
                   pushed, completed, failed_tasks, split_parents>>

\* process_quantum_task is entered: if (processor_id == failed_processor.load())
Dispatch(w) ==
    /\ pc[w] = "dispatch"
    /\ pc' = [pc EXCEPT ![w] =
                 IF ProcessorOf(w) = failed_processor
                 THEN "report_failed" ELSE "acquire"]
    /\ UNCHANGED <<mvars, rvars, task_queue, quantum_processors, queue_mutex, output_mutex,
                   failed_processor, task, main_vars, fail_pc,
                   pushed, completed, failed_tasks, split_parents>>

\* ReportFailed that marks the processor as working again
ReportFailedClears(w) ==
    /\ pc[w] = "report_failed"
    /\ output_mutex = NoThread
    /\ failed_tasks' = Push(failed_tasks, task[w])
    /\ failed_processor' = NoFailure
    /\ task' = [task EXCEPT ![w] = NoTask]
    /\ pc' = [pc EXCEPT ![w] = "pop"]
    /\ UNCHANGED <<mvars, rvars, task_queue, quantum_processors, queue_mutex,
                   output_mutex, main_vars, fail_pc,
                   pushed, completed, split_parents>>

\* the message that the task failed, and return
ReportFailed(w) ==
    /\ pc[w] = "report_failed"
    /\ output_mutex = NoThread
    /\ failed_tasks' = Push(failed_tasks, task[w])
    /\ task' = [task EXCEPT ![w] = NoTask]
    /\ pc' = [pc EXCEPT ![w] = "pop"]
    /\ UNCHANGED <<mvars, rvars, task_queue, quantum_processors, queue_mutex, output_mutex,
                   failed_processor, main_vars, fail_pc,
                   pushed, completed, split_parents>>

\* quantum_processors.acquire()
Acquire(w) ==
    /\ pc[w] = "acquire"
    /\ quantum_processors > 0
    /\ quantum_processors' = quantum_processors - 1
    /\ pc' = [pc EXCEPT ![w] = "run"]
    /\ UNCHANGED <<mvars, rvars, task_queue, queue_mutex, output_mutex,
                   failed_processor, task, main_vars, fail_pc,
                   pushed, completed, failed_tasks, split_parents>>

\* Run that releases the processor twice
RunReleaseTwice(w) ==
    /\ pc[w] = "run"
    /\ output_mutex = NoThread
    /\ quantum_processors' = quantum_processors + 2
    /\ pc' = [pc EXCEPT ![w] = "print_completed"]
    /\ UNCHANGED <<mvars, rvars, task_queue, queue_mutex, output_mutex,
                   failed_processor, task, main_vars, fail_pc,
                   pushed, completed, failed_tasks, split_parents>>

\* the message that the task started, under output_mutex, then
\* sleep_for(task.duration) and quantum_processors.release().  The worker
\* holds its processor while it waits here for output_mutex; nothing blocks
\* once the mutex is taken: one step
Run(w) ==
    /\ pc[w] = "run"
    /\ output_mutex = NoThread
    /\ quantum_processors' = quantum_processors + 1
    /\ pc' = [pc EXCEPT ![w] = "print_completed"]
    /\ UNCHANGED <<mvars, rvars, task_queue, queue_mutex, output_mutex,
                   failed_processor, task, main_vars, fail_pc,
                   pushed, completed, failed_tasks, split_parents>>

\* the message that the task completed, under output_mutex, and return
PrintCompleted(w) ==
    /\ pc[w] = "print_completed"
    /\ output_mutex = NoThread
    /\ completed' = Push(completed, task[w])
    /\ task' = [task EXCEPT ![w] = NoTask]
    /\ pc' = [pc EXCEPT ![w] = "pop"]
    /\ UNCHANGED <<mvars, rvars, task_queue, quantum_processors, queue_mutex, output_mutex,
                   failed_processor, main_vars, fail_pc,
                   pushed, failed_tasks, split_parents>>

process_quantum_tasks(w, max_rand) ==
    \/ Pop(w)
    \/ SplitPrint(w)
    \/ SplitLock(w)
    \/ SplitPush(w, max_rand)
    \/ Dispatch(w)
    \/ ReportFailed(w)
    \/ Acquire(w)
    \/ Run(w)
    \/ PrintCompleted(w)

(***************************************************************************)
(* simulate_processor_failure                                              *)
(***************************************************************************)
\* sleep_for(2 s), then failed_processor.store(processor_id)
FailProcessor ==
    /\ fail_pc = "sleeping"
    /\ failed_processor' = FailingProcessor
    /\ fail_pc' = "print"
    /\ UNCHANGED <<mvars, rvars, task_queue, quantum_processors, queue_mutex, output_mutex,
                   pc, task, main_vars,
                   pushed, completed, failed_tasks, split_parents>>

\* the message that the processor failed, under output_mutex
PrintFailure ==
    /\ fail_pc = "print"
    /\ output_mutex = NoThread
    /\ fail_pc' = "done"
    /\ UNCHANGED <<mvars, rvars, task_queue, quantum_processors, queue_mutex, output_mutex,
                   failed_processor, pc, task, main_vars,
                   pushed, completed, failed_tasks, split_parents>>

simulate_processor_failure == FailProcessor \/ PrintFailure

(***************************************************************************)
(* Initial state of the monitoring server: the globals as declared.        *)
(***************************************************************************)
InitM ==
    /\ data_queue = EmptyBag
    /\ server_capacity = ServerCapacity
    /\ cout_mutex = NoThread
    /\ current_load = 0
    /\ emergency_mode = FALSE
    /\ active_handlers = MinHandlers
    /\ emergency_counter = 0
    /\ station_pc = [s \in StationIds |-> "generate"]
    /\ station_data = [s \in StationIds |-> NoData]
    /\ handler_pc = [h \in HandlerIds |-> "pop"]
    /\ monitor_pc = "sample"
    /\ load = 0
    /\ probe_i = 0
    /\ aborted = FALSE
    /\ streak = 0

\* no push-then-pop run is made
InitR ==
    /\ run_queue = "none"
    /\ popping = FALSE
    /\ popped = <<>>

(***************************************************************************)
(* std::counting_semaphore<5> server_capacity.  release() past the maximum *)
(* of the semaphore breaks its precondition: the behaviour is undefined.   *)
(* A build either adds to the counter all the same or ends the process on  *)
(* a failed check.                                                         *)
(***************************************************************************)
Release ==
    \/ /\ server_capacity' = server_capacity + 1
       /\ UNCHANGED aborted
    \/ /\ server_capacity >= ServerCapacity
       /\ aborted' = TRUE
       /\ UNCHANGED server_capacity

\* try_acquire() takes a unit when there is one; it may fail even then
TryAcquire(taken) ==
    /\ taken => server_capacity > 0
    /\ server_capacity' = IF taken THEN server_capacity - 1 ELSE server_capacity

\* the workers between server_capacity.acquire() and release() in process_data
DataHolders == {h \in HandlerIds : handler_pc[h] = "process"}

(***************************************************************************)
(* monitoring_station, one station s.                                      *)
(***************************************************************************)
\* Overloaded without the test of is_critical
OverloadedAny(data) ==
    current_load > GrowLoad /\ data.priority > OverloadCutoff

\* if (current_load > 80 && !data.is_critical && data.priority > 3)
Overloaded(data) ==
    current_load > GrowLoad /\ ~data.is_critical /\ data.priority > OverloadCutoff

\* if (emergency_mode && data.priority > 2 && !data.is_critical)
EmergencyDrop(data) ==
    emergency_mode /\ data.priority > EmergencyCutoff /\ ~data.is_critical

\* the data are made and current_load is read
Generate(s, priorities, criticals) ==
    /\ ~aborted
    /\ station_pc[s] = "generate"
    /\ \E p \in priorities, c \in criticals, z \in StationSizes :
          LET data == MonitoringData(s, p, c, z)
          IN /\ station_data' = [station_data EXCEPT ![s] = data]
             /\ station_pc' = [station_pc EXCEPT ![s] =
                                  IF Overloaded(data) THEN "overload_print"
                                  ELSE "check_emergency"]
    /\ UNCHANGED <<qvars, rvars, data_queue, server_capacity, cout_mutex,
                   current_load, emergency_mode, active_handlers,
                   emergency_counter, handler_pc, monitor_pc, load, probe_i,
                   aborted, streak>>

\* cout_mutex is taken for the message that the data are dropped and is held
\* over the sleep_for that follows
DropPrint(s) ==
    /\ ~aborted
    /\ station_pc[s] \in {"overload_print", "emergency_print"}
    /\ cout_mutex = NoThread
    /\ cout_mutex' = s
    /\ station_pc' = [station_pc EXCEPT ![s] = "drop_sleep"]
    /\ UNCHANGED <<qvars, rvars, data_queue, server_capacity,
                   current_load, emergency_mode, active_handlers,
                   emergency_counter, station_data, handler_pc, monitor_pc,
                   load, probe_i, aborted, streak>>

\* sleep_for(500 ms) or sleep_for(200 ms) is over, cout_mutex is given back
\* and `continue` starts the next round
DropSleep(s) ==
    /\ ~aborted
    /\ station_pc[s] = "drop_sleep"
    /\ cout_mutex = s
    /\ cout_mutex' = NoThread
    /\ station_data' = [station_data EXCEPT ![s] = NoData]
    /\ station_pc' = [station_pc EXCEPT ![s] = "generate"]
    /\ UNCHANGED <<qvars, rvars, data_queue, server_capacity,
                   current_load, emergency_mode, active_handlers,
                   emergency_counter, handler_pc, monitor_pc,
                   load, probe_i, aborted, streak>>

\* emergency_mode is read
CheckEmergency(s) ==
    /\ ~aborted
    /\ station_pc[s] = "check_emergency"
    /\ station_pc' = [station_pc EXCEPT ![s] =
                         IF EmergencyDrop(station_data[s])
                         THEN "emergency_print" ELSE "push"]
    /\ UNCHANGED <<qvars, rvars, data_queue, server_capacity, cout_mutex,
                   current_load, emergency_mode, active_handlers,
                   emergency_counter, station_data, handler_pc, monitor_pc,
                   load, probe_i, aborted, streak>>

\* data_queue.push(data) under queue_mutex
PushData(s) ==
    /\ ~aborted
    /\ station_pc[s] = "push"
    /\ BagCardinality(data_queue) < MaxQueue
    /\ data_queue' = Push(data_queue, station_data[s])
    /\ station_data' = [station_data EXCEPT ![s] = NoData]
    /\ station_pc' = [station_pc EXCEPT ![s] = "sent_print"]
    /\ UNCHANGED <<qvars, rvars, server_capacity, cout_mutex,
                   current_load, emergency_mode, active_handlers,
                   emergency_counter, handler_pc, monitor_pc, load, probe_i,
                   aborted, streak>>

\* the message that the data are sent, under cout_mutex, and the sleep_for
\* before the next round
SentPrint(s) ==
    /\ ~aborted
    /\ station_pc[s] = "sent_print"
    /\ cout_mutex = NoThread
    /\ station_pc' = [station_pc EXCEPT ![s] = "generate"]
    /\ UNCHANGED <<qvars, rvars, data_queue, server_capacity, cout_mutex,
                   current_load, emergency_mode, active_handlers,
                   emergency_counter, station_data, handler_pc, monitor_pc,
                   load, probe_i, aborted, streak>>

monitoring_station(s, priorities, criticals) ==
    \/ Generate(s, priorities, criticals)
    \/ DropPrint(s)
    \/ DropSleep(s)
    \/ CheckEmergency(s)
    \/ PushData(s)
    \/ SentPrint(s)

(***************************************************************************)
(* data_handler and process_data, one handler h.  What is popped decides   *)
(* only the messages and how long the handler sleeps.                      *)
(***************************************************************************)
\* under queue_mutex: top() and pop() when the queue is not empty; otherwise
\* sleep_for(100 ms) and the next round
PopData(h) ==
    /\ ~aborted
    /\ handler_pc[h] = "pop"
    /\ IF IsEmpty(data_queue)
       THEN UNCHANGED <<data_queue, handler_pc>>
       ELSE \E d \in TopData(data_queue) :
               /\ data_queue' = Remove(data_queue, d)
               /\ handler_pc' = [handler_pc EXCEPT ![h] = "acquire"]
    /\ UNCHANGED <<qvars, rvars, server_capacity, cout_mutex,
                   current_load, emergency_mode, active_handlers,
                   emergency_counter, station_pc, station_data, monitor_pc,
                   load, probe_i, aborted, streak>>

\* server_capacity.acquire()
AcquireServer(h) ==
    /\ ~aborted
    /\ handler_pc[h] = "acquire"
    /\ server_capacity > 0
    /\ server_capacity' = server_capacity - 1
    /\ handler_pc' = [handler_pc EXCEPT ![h] = "process"]
    /\ UNCHANGED <<qvars, rvars, data_queue, cout_mutex,
                   current_load, emergency_mode, active_handlers,
                   emergency_counter, station_pc, station_data, monitor_pc,
                   load, probe_i, aborted, streak>>

\* the message that the data are processed, under cout_mutex, then
\* sleep_for(size / 100) and server_capacity.release()
ProcessData(h) ==
    /\ ~aborted
    /\ handler_pc[h] = "process"
    /\ cout_mutex = NoThread
    /\ Release
    /\ handler_pc' = [handler_pc EXCEPT ![h] = "done_print"]
    /\ UNCHANGED <<qvars, rvars, data_queue, cout_mutex,
                   current_load, emergency_mode, active_handlers,
                   emergency_counter, station_pc, station_data, monitor_pc,
                   load, probe_i, streak>>

\* the message that the data were processed, under cout_mutex
DonePrint(h) ==
    /\ ~aborted
    /\ handler_pc[h] = "done_print"
    /\ cout_mutex = NoThread
    /\ handler_pc' = [handler_pc EXCEPT ![h] = "pop"]
    /\ UNCHANGED <<qvars, rvars, data_queue, server_capacity, cout_mutex,
                   current_load, emergency_mode, active_handlers,
                   emergency_counter, station_pc, station_data, monitor_pc,
                   load, probe_i, aborted, streak>>

data_handler(h) ==
    \/ PopData(h)
    \/ AcquireServer(h)
    \/ ProcessData(h)
    \/ DonePrint(h)

(***************************************************************************)
(* load_monitor                                                            *)
(***************************************************************************)
\* Sample that computes the load from the counter: the share of the 5 units
\* that are taken
SampleByCounter ==
    /\ ~aborted
    /\ monitor_pc = "sample"
    /\ load' = (ServerCapacity - server_capacity) * LoadStep
    /\ streak' = IF load' > 95 THEN streak + 1 ELSE 0
    /\ probe_i' = 0
    /\ monitor_pc' = "probe"
    /\ UNCHANGED <<qvars, rvars, data_queue, server_capacity, cout_mutex,
                   current_load, emergency_mode, active_handlers,
                   emergency_counter, station_pc, station_data, handler_pc,
                   aborted>>

\* size_t load = (5 - server_capacity.try_acquire()) * 20
Sample ==
    /\ ~aborted
    /\ monitor_pc = "sample"
    /\ \E taken \in BOOLEAN :
          /\ TryAcquire(taken)
          /\ load' = (LoadBase - (IF taken THEN 1 ELSE 0)) * LoadStep
    /\ streak' = IF load' > 95 THEN streak + 1 ELSE 0
    /\ probe_i' = 0
    /\ monitor_pc' = "probe"
    /\ UNCHANGED <<qvars, rvars, data_queue, cout_mutex, current_load,
                   emergency_mode, active_handlers, emergency_counter,
                   station_pc, station_data, handler_pc, aborted>>

\* one round of the for loop: if (server_capacity.try_acquire())
Probe ==
    /\ ~aborted
    /\ monitor_pc = "probe"
    /\ \E taken \in BOOLEAN :
          /\ TryAcquire(taken)
          /\ IF taken
             THEN /\ monitor_pc' = "probe_release"
                  /\ UNCHANGED probe_i
             ELSE IF probe_i + 1 < ProbeTries
             THEN /\ probe_i' = probe_i + 1
                  /\ UNCHANGED monitor_pc
             ELSE /\ probe_i' = 0
                  /\ monitor_pc' = "store"
    /\ UNCHANGED <<qvars, rvars, data_queue, cout_mutex, current_load,
                   emergency_mode, active_handlers, emergency_counter,
                   station_pc, station_data, handler_pc, load, aborted,
                   streak>>

\* server_capacity.release(); break
ProbeRelease ==
    /\ ~aborted
    /\ monitor_pc = "probe_release"
    /\ Release
    /\ probe_i' = 0
    /\ monitor_pc' = "store"
    /\ UNCHANGED <<qvars, rvars, data_queue, cout_mutex, current_load,
                   emergency_mode, active_handlers, emergency_counter,
                   station_pc, station_data, handler_pc, load, streak>>

\* StoreLoad without the test active_handlers > 5
StoreLoadNoMin ==
    /\ ~aborted
    /\ monitor_pc = "store"
    /\ current_load' = load
    /\ IF load > GrowLoad /\ active_handlers < MaxHandlers
       THEN /\ active_handlers' = active_handlers + 1
            /\ monitor_pc' = "grow"
       ELSE IF load < ShrinkLoad
       THEN /\ active_handlers' = active_handlers - 1
            /\ monitor_pc' = "shrink"
       ELSE /\ UNCHANGED active_handlers
            /\ monitor_pc' = "emergency"
    /\ UNCHANGED <<qvars, rvars, data_queue, server_capacity, cout_mutex,
                   emergency_mode, emergency_counter, station_pc,
                   station_data, handler_pc, load, probe_i, aborted, streak>>

\* StoreLoad without the test active_handlers < 10
StoreLoadNoMax ==
    /\ ~aborted
    /\ monitor_pc = "store"
    /\ current_load' = load
    /\ IF load > GrowLoad
       THEN /\ active_handlers' = active_handlers + 1
            /\ monitor_pc' = "grow"
       ELSE IF load < ShrinkLoad /\ active_handlers > MinHandlers
       THEN /\ active_handlers' = active_handlers - 1
            /\ monitor_pc' = "shrink"
       ELSE /\ UNCHANGED active_handlers
            /\ monitor_pc' = "emergency"
    /\ UNCHANGED <<qvars, rvars, data_queue, server_capacity, cout_mutex,
                   emergency_mode, emergency_counter, station_pc,
                   station_data, handler_pc, load, probe_i, aborted, streak>>

\* current_load = load, and the choice between one handler more, one handler
\* less and neither, with active_handlers++ or active_handlers--
StoreLoad ==
    /\ ~aborted
    /\ monitor_pc = "store"
    /\ current_load' = load
    /\ IF load > GrowLoad /\ active_handlers < MaxHandlers
       THEN /\ active_handlers' = active_handlers + 1
            /\ monitor_pc' = "grow"
       ELSE IF load < ShrinkLoad /\ active_handlers > MinHandlers
       THEN /\ active_handlers' = active_handlers - 1
            /\ monitor_pc' = "shrink"
       ELSE /\ UNCHANGED active_handlers
            /\ monitor_pc' = "emergency"
    /\ UNCHANGED <<qvars, rvars, data_queue, server_capacity, cout_mutex,
                   emergency_mode, emergency_counter, station_pc,
                   station_data, handler_pc, load, probe_i, aborted, streak>>

\* server_capacity.release() after active_handlers++, or
\* server_capacity.acquire() after active_handlers--
Resize ==
    /\ ~aborted
    /\ monitor_pc \in {"grow", "shrink"}
    /\ IF monitor_pc = "grow"
       THEN Release
       ELSE /\ server_capacity > 0
            /\ server_capacity' = server_capacity - 1
            /\ UNCHANGED aborted
    /\ monitor_pc' = "resize_print"
    /\ UNCHANGED <<qvars, rvars, data_queue, cout_mutex, current_load,
                   emergency_mode, active_handlers, emergency_counter,
                   station_pc, station_data, handler_pc, load, probe_i,
                   streak>>

\* the message that a handler was added or removed, under cout_mutex
ResizePrint ==
    /\ ~aborted
    /\ monitor_pc = "resize_print"
    /\ cout_mutex = NoThread
    /\ monitor_pc' = "emergency"
    /\ UNCHANGED <<qvars, rvars, data_queue, server_capacity, cout_mutex,
                   current_load, emergency_mode, active_handlers,
                   emergency_counter, station_pc, station_data, handler_pc,
                   load, probe_i, aborted, streak>>

\* EmergencyCheck with emergency_counter >= 3 for emergency_counter > 3
EmergencyCheckEarly ==
    /\ ~aborted
    /\ monitor_pc = "emergency"
    /\ IF load > EmergencyLoad
       THEN /\ emergency_counter < MaxEmergencyCount
            /\ emergency_counter' = emergency_counter + 1
            /\ emergency_mode' =
                  (emergency_mode \/ emergency_counter' >= EmergencySamples)
       ELSE /\ emergency_counter' = 0
            /\ emergency_mode' = FALSE
    /\ monitor_pc' = IF emergency_mode' # emergency_mode
                     THEN "mode_print" ELSE "sample"
    /\ load' = IF emergency_mode' # emergency_mode THEN load ELSE 0
    /\ UNCHANGED <<qvars, rvars, data_queue, server_capacity, cout_mutex,
                   current_load, active_handlers, station_pc, station_data,
                   handler_pc, probe_i, aborted, streak>>

\* if (load > 95) { emergency_counter++; ... } else { emergency_counter = 0; ... }
EmergencyCheck ==
    /\ ~aborted
    /\ monitor_pc = "emergency"
    /\ IF load > EmergencyLoad
       THEN /\ emergency_counter < MaxEmergencyCount
            /\ emergency_counter' = emergency_counter + 1
            /\ emergency_mode' =
                  (emergency_mode \/ emergency_counter' > EmergencySamples)
       ELSE /\ emergency_counter' = 0
            /\ emergency_mode' = FALSE
    /\ monitor_pc' = IF emergency_mode' # emergency_mode
                     THEN "mode_print" ELSE "sample"
    /\ load' = IF emergency_mode' # emergency_mode THEN load ELSE 0
    /\ UNCHANGED <<qvars, rvars, data_queue, server_capacity, cout_mutex,
                   current_load, active_handlers, station_pc, station_data,
                   handler_pc, probe_i, aborted, streak>>

\* the message that the emergency mode is on or off, under cout_mutex, and
\* sleep_for(500 ms) before the next round
ModePrint ==
    /\ ~aborted
    /\ monitor_pc = "mode_print"
    /\ cout_mutex = NoThread
    /\ monitor_pc' = "sample"
    /\ load' = 0
    /\ UNCHANGED <<qvars, rvars, data_queue, server_capacity, cout_mutex,
                   current_load, emergency_mode, active_handlers,
                   emergency_counter, station_pc, station_data, handler_pc,
                   probe_i, aborted, streak>>

load_monitor ==
    \/ Sample
    \/ Probe
    \/ ProbeRelease
    \/ StoreLoad
    \/ Resize
    \/ ResizePrint
    \/ EmergencyCheck
    \/ ModePrint

(***************************************************************************)
(* Push-then-pop runs: some pushes into one of the queues, as              *)
(* add_quantum_task and monitoring_station make them, and then pops, as    *)
(* process_quantum_tasks and data_handler make them, with no push in       *)
(* between.                                                                *)
(***************************************************************************)
RunPushTask ==
    /\ run_queue = "task_queue"
    /\ ~popping
    /\ n_added < MaxPushes
    /\ \E p \in Priorities, c \in BOOLEAN, d \in Durations, q \in Qubits :
          add_quantum_task(n_added + 1, p, c, d, q)

RunPushData ==
    /\ run_queue = "data_queue"
    /\ ~popping
    /\ BagCardinality(data_queue) < MaxPushes
    /\ \E s \in StationIds, p \in StationPriorities, c \in BOOLEAN,
          z \in RunSizes :
          data_queue' = Push(data_queue, MonitoringData(s, p, c, z))
    /\ UNCHANGED <<qvars, rvars, server_capacity, cout_mutex, current_load,
                   emergency_mode, active_handlers, emergency_counter,
                   station_pc, station_data, handler_pc, monitor_pc, load,
                   probe_i, aborted, streak>>

StartPopping ==
    /\ run_queue # "none"
    /\ ~popping
    /\ popping' = TRUE
    /\ UNCHANGED <<qvars, mvars, run_queue, popped>>

RunPopTask ==
    /\ run_queue = "task_queue"
    /\ popping
    /\ \E t \in TopTask(task_queue) :
          /\ task_queue' = Remove(task_queue, t)
          /\ popped' = Append(popped, t)
    /\ UNCHANGED <<mvars, run_queue, popping, quantum_processors, queue_mutex,
                   output_mutex, failed_processor, pc, task, main_vars,
                   fail_pc, pushed, completed, failed_tasks, split_parents>>

RunPopData ==
    /\ run_queue = "data_queue"
    /\ popping
    /\ \E d \in TopData(data_queue) :
          /\ data_queue' = Remove(data_queue, d)
          /\ popped' = Append(popped, d)
    /\ UNCHANGED <<qvars, run_queue, popping, server_capacity, cout_mutex,
                   current_load, emergency_mode, active_handlers,
                   emergency_counter, station_pc, station_data, handler_pc,
                   monitor_pc, load, probe_i, aborted, streak>>

(***************************************************************************)
(* The specifications.                                                     *)
(***************************************************************************)
Init == InitQ /\ InitM /\ InitR

Next ==
    \/ AddTask
    \/ StartThreads
    \/ SpawnThread(NumWorkers)
    \/ JoinThreads
    \/ \E w \in WorkerIds : process_quantum_tasks(w, MaxRand)
    \/ simulate_processor_failure

Spec == Init /\ [][Next]_vars

NextMain ==
    \/ AddMainTask
    \/ StartThreads
    \/ SpawnThread(MainWorkers)
    \/ JoinThreads
    \/ \E w \in WorkerIds : process_quantum_tasks(w, MainRand)
    \/ simulate_processor_failure

SpecMain == Init /\ [][NextMain]_vars

\* the monitoring server
NextM ==
    \/ \E s \in StationIds :
          monitoring_station(s, ServerPriorities, ServerCriticals)
    \/ \E h \in 1 .. NumHandlers : data_handler(h)
    \/ load_monitor

SpecM == Init /\ [][NextM]_vars

\* the monitoring server with stations that send data of every kind
NextAdmission ==
    \/ \E s \in StationIds :
          monitoring_station(s, StationPriorities, BOOLEAN)
    \/ \E h \in 1 .. AdmissionHandlers : data_handler(h)
    \/ load_monitor

SpecAdmission == Init /\ [][NextAdmission]_vars

\* the push-then-pop runs of the two queues
InitRun ==
    /\ InitQ
    /\ InitM
    /\ run_queue \in {"task_queue", "data_queue"}
    /\ popping = FALSE
    /\ popped = <<>>

NextRun ==
    \/ RunPushTask
    \/ RunPushData
    \/ StartPopping
    \/ RunPopTask
    \/ RunPopData

SpecRun == InitRun /\ [][NextRun]_vars

\* the scheduler fed with arbitrary tasks, every worker and main scheduled
\* fairly; the failure thread may stay asleep for ever
FairSpec ==
    /\ Spec
    /\ WF_vars(AddTask \/ StartThreads \/ SpawnThread(NumWorkers) \/ JoinThreads)
    /\ \A w \in WorkerIds : WF_vars(process_quantum_tasks(w, MaxRand))

(***************************************************************************)
(* Properties of the two queues.                                           *)
(***************************************************************************)
\* the cost of an item: the duration of a task, the size of monitoring data
Cost(x) == IF run_queue = "task_queue" THEN x.duration ELSE x.size

\* the rank (priority, not critical, cost) of a is at most that of b
RankAtMost(a, b) ==
    \/ a.priority < b.priority
    \/ /\ a.priority = b.priority
       /\ \/ a.is_critical /\ ~b.is_critical
          \/ /\ a.is_critical = b.is_critical
             /\ Cost(a) <= Cost(b)

\* C1: in a run of pushes followed by pops the items come out in
\* non-decreasing rank (priority, then critical before not critical, then
\* cost), and no item still in the queue has a lower rank than one that
\* came out.
PopsInRankOrder ==
    /\ \A i \in 1 .. Len(popped), j \in 1 .. Len(popped) :
          i < j => RankAtMost(popped[i], popped[j])
    /\ \A i \in 1 .. Len(popped) :
          \A x \in BagToSet(IF run_queue = "task_queue"
                            THEN task_queue ELSE data_queue) :
             RankAtMost(popped[i], x)

\* of two tasks of equal priority the critical one was pushed last and came
\* out first
CriticalOvertook ==
    /\ run_queue = "task_queue"
    /\ Len(popped) >= 2
    /\ popped[1].priority = popped[2].priority
    /\ popped[1].is_critical
    /\ ~popped[2].is_critical
    /\ popped[1].id > popped[2].id

(***************************************************************************)
(* Properties of the quantum-task scheduler.                               *)
(***************************************************************************)
\* the workers between quantum_processors.acquire() and release()
Holders == {w \in WorkerIds : pc[w] = "run"}

H == Cardinality(Holders)

\* the tasks popped and not yet reported or replaced
RECURSIVE InFlight(_)
InFlight(W) ==
    IF W = {} THEN EmptyBag
    ELSE LET w == CHOOSE x \in W : TRUE
         IN IF task[w] = NoTask THEN InFlight(W \ {w})
            ELSE Push(InFlight(W \ {w}), task[w])

\* C2: in the program as wired in main the number H of workers between
\* acquire() and release() is within 0..4, the counter of the semaphore is
\* never negative and counts the processors not held, and a worker that
\* calls acquire() while H = 4 stays in acquire() in every step that does
\* not start from a state with a free processor.
PoolBounded ==
    /\ [](/\ 0 <= H
          /\ H <= 4
          /\ quantum_processors >= 0
          /\ quantum_processors = 4 - H)
    /\ [][\A w \in WorkerIds :
             (pc[w] = "acquire" /\ H = 4) => pc'[w] = "acquire"]_vars

\* four workers hold a processor and a fifth is in acquire()
PoolFullAndWaiting ==
    /\ H = 4
    /\ \E w \in WorkerIds : pc[w] = "acquire"

\* C4: a dispatch to the processor that failed_processor names leaves the
\* semaphore alone and goes on to report the task as failed; the report puts
\* the task among the failed ones, neither runs it nor pushes it back, and
\* the worker is back at the head of its loop.  A worker is about to report a
\* failure only on the failed processor.
FailFast ==
    /\ [](\A w \in WorkerIds :
             pc[w] = "report_failed" =>
                /\ failed_processor = ProcessorOf(w)
                /\ w \notin Holders)
    /\ [][\A w \in WorkerIds :
             /\ (pc[w] = "dispatch" /\ pc'[w] # "dispatch"
                    /\ failed_processor = ProcessorOf(w))
                => /\ pc'[w] = "report_failed"
                   /\ quantum_processors' = quantum_processors
             /\ (pc[w] = "report_failed" /\ pc'[w] # "report_failed")
                => /\ pc'[w] = "pop"
                   /\ failed_tasks' = failed_tasks (+) SetToBag({task[w]})
                   /\ quantum_processors' = quantum_processors
                   /\ task_queue' = task_queue
                   /\ completed' = completed]_vars

\* a task was reported failed and the worker that reported it is at the head
\* of its loop again
FailureReported ==
    /\ failed_tasks # EmptyBag
    /\ \E w \in WorkerIds : ProcessorOf(w) = failed_processor /\ pc[w] = "pop"

\* every task pushed is in the queue, with a worker, or reported
Conserved ==
    pushed = task_queue (+) InFlight(WorkerIds) (+) completed
                (+) failed_tasks (+) split_parents

\* all workers left their loop with every task completed or replaced by its
\* halves
AllAccounted ==
    /\ main_pc \in {"joining", "exited"}
    /\ \A w \in WorkerIds : pc[w] \in {"unborn", "done"}
    /\ task_queue = EmptyBag
    /\ pushed = completed (+) split_parents

\* C5: no task is lost, and when every worker is scheduled fairly and no
\* failure is injected, all workers end with every pushed task completed or
\* replaced by its two pushed halves.
NoStarvation ==
    /\ []Conserved
    /\ <>(failed_processor # NoFailure \/ AllAccounted)

\* a task was split and the run ended with no failure: the parent is
\* accounted for by its halves, which completed
SplitRunAccounted ==
    /\ AllAccounted
    /\ failed_processor = NoFailure
    /\ split_parents # EmptyBag
    /\ BagCardinality(completed) >= 2

\* C6: every task in task_queue has a positive duration and a positive
\* number of qubits.
QueuedTasksPositive ==
    \A t \in BagToSet(task_queue) : t.duration > 0 /\ t.required_qubits > 0

\* C7: a popped task goes to the split branch exactly when it needs more
\* than 5 qubits and is no half; the split adds exactly two tasks to the
\* queue, both marked as halves with half the duration and half the qubits
\* (rounded down), removes none and completes none; a half is never in the
\* split branch, so only tasks that are no halves have been split and the
\* halves ever pushed are two for each task split.
SplitOnce ==
    /\ [](/\ \A w \in WorkerIds :
                pc[w] \in {"split_print", "split_lock", "split_push"}
                   => ~task[w].is_split /\ task[w].required_qubits > 5
          /\ \A p \in BagToSet(split_parents) : ~p.is_split
          /\ BagCardinality([t \in {x \in BagToSet(pushed) : x.is_split}
                                |-> pushed[t]])
                = 2 * BagCardinality(split_parents))
    /\ [][\A w \in WorkerIds :
             /\ (pc[w] = "pop" /\ pc'[w] \notin {"pop", "done"})
                => /\ (pc'[w] = "split_print")
                         = (task'[w].required_qubits > 5 /\ ~task'[w].is_split)
                   /\ (pc'[w] = "dispatch")
                         = ~(task'[w].required_qubits > 5 /\ ~task'[w].is_split)
             /\ (pc[w] = "split_push" /\ pc'[w] # "split_push")
                => LET added == task_queue' (-) task_queue
                   IN /\ BagCardinality(added) = 2
                      /\ task_queue (-) task_queue' = EmptyBag
                      /\ completed' = completed
                      /\ \A c \in BagToSet(added) :
                            /\ c.is_split
                            /\ 2 * c.duration <= task[w].duration
                            /\ task[w].duration < 2 * c.duration + 2
                            /\ 2 * c.required_qubits <= task[w].required_qubits
                            /\ task[w].required_qubits
                                  < 2 * c.required_qubits + 2]_vars

\* a half that still needs more than 5 qubits was run to completion
LargeHalfCompleted ==
    \E t \in BagToSet(completed) : t.is_split /\ t.required_qubits > 5

(***************************************************************************)
(* Properties of the monitoring server.                                    *)
(***************************************************************************)
\* the handlers between acquire() and release()
HM == Cardinality(DataHolders)

\* C3: active_handlers stays within 5..10, the number of handlers between
\* acquire() and release() is within 0..active_handlers, and the counter of
\* server_capacity is never negative; the units the handlers hold and the
\* units the counter still offers are together at most active_handlers, so
\* no change of the capacity lets more handlers in than active_handlers.
CapacityBounded ==
    /\ 5 <= active_handlers
    /\ active_handlers <= 10
    /\ 0 <= HM
    /\ HM <= active_handlers
    /\ server_capacity >= 0
    /\ HM + server_capacity <= active_handlers

\* the capacity has grown to its maximum while a handler is processing
GrownToMaximum ==
    /\ active_handlers = 10
    /\ DataHolders # {}

\* the places of load_monitor where the latest sample has been looked at
Checked == {"sample", "mode_print"}

\* C8: the emergency mode is switched on by the check of the 4th sample
\* above 95 in a row and of no other, stays on at the check of every further
\* sample above 95, and is switched off, with the counter back at 0, by the
\* check of the first sample that is not above 95; so once the latest sample
\* has been looked at, the mode is on exactly when the latest 4 or more
\* samples were all above 95.
EmergencyHysteresis ==
    /\ [](/\ monitor_pc \in Checked =>
                /\ emergency_mode = (streak >= 4)
                /\ emergency_counter = streak
          /\ emergency_mode => (streak >= 4 \/ monitor_pc \notin Checked))
    /\ [][/\ (emergency_mode' # emergency_mode) =>
                /\ monitor_pc = "emergency"
                /\ emergency_mode' => streak = 4
                /\ ~emergency_mode' => (streak = 0 /\ emergency_counter' = 0)
          /\ (monitor_pc = "emergency" /\ monitor_pc' # "emergency") =>
                /\ (emergency_mode /\ streak > 0) => emergency_mode'
                /\ (~emergency_mode /\ streak = 4) => emergency_mode'
                /\ streak = 0 => ~emergency_mode']_vars

\* the mode is still on after a 5th sample above 95 in a row
EmergencyStaysOn ==
    /\ emergency_mode
    /\ streak >= 5
    /\ monitor_pc = "sample"

\* the places of a station that dropped its data
Dropping == {"overload_print", "emergency_print", "drop_sleep"}

\* C9: the data a station made are dropped at the read of current_load
\* exactly when current_load > 80 and they are not critical and of priority
\* above 3, and at the read of emergency_mode exactly when the mode is on and
\* they are not critical and of priority above 2; otherwise they are pushed.
\* A station that drops pushes nothing and starts its next round with no
\* data, so critical data and data of priority 2 or less are never dropped.
AdmissionRule ==
    /\ [](\A s \in StationIds :
             station_pc[s] \in Dropping =>
                /\ ~station_data[s].is_critical
                /\ station_data[s].priority > 2)
    /\ [][\A s \in StationIds :
             /\ (station_pc[s] = "generate" /\ station_pc'[s] # "generate") =>
                   /\ station_pc'[s] \in {"overload_print", "check_emergency"}
                   /\ (station_pc'[s] = "overload_print")
                         = (/\ current_load > 80
                            /\ ~station_data'[s].is_critical
                            /\ station_data'[s].priority > 3)
                   /\ data_queue' = data_queue
             /\ (station_pc[s] = "check_emergency"
                    /\ station_pc'[s] # "check_emergency") =>
                   /\ station_pc'[s] \in {"emergency_print", "push"}
                   /\ (station_pc'[s] = "emergency_print")
                         = (/\ emergency_mode
                            /\ ~station_data[s].is_critical
                            /\ station_data[s].priority > 2)
                   /\ station_data'[s] = station_data[s]
                   /\ data_queue' = data_queue
             /\ (station_pc[s] = "push" /\ station_pc'[s] # "push") =>
                   data_queue' = data_queue (+) SetToBag({station_data[s]})
             /\ (station_pc[s] \in Dropping
                    /\ station_pc'[s] # station_pc[s]) =>
                   /\ station_pc'[s] \in {"drop_sleep", "generate"}
                   /\ station_pc'[s] = "generate" => station_data'[s] = NoData
                   /\ data_queue' = data_queue]_vars

\* data of priority 3 passed the read of current_load and are dropped in
\* emergency mode
DroppedInEmergency ==
    \E s \in StationIds :
       /\ station_pc[s] = "emergency_print"
       /\ station_data[s].priority = 3

\* C10: when an iteration of load_monitor is over, the units of
\* server_capacity in circulation (the counter and the units the handlers
\* hold) are as many as active_handlers.
SamplingKeepsUnits ==
    monitor_pc = "sample" => server_capacity + HM = active_handlers


(***************************************************************************)
(* Further properties of the quantum-task scheduler.                       *)
(***************************************************************************)
\* C11: the tasks that were ever pushed, the tasks of main and the halves
\* made by split_task, have pairwise different ids: no task was pushed twice
\* and no two different tasks carry the same id.
UniqueIds ==
    \A t \in BagToSet(pushed) :
       /\ pushed[t] = 1
       /\ \A u \in BagToSet(pushed) : t # u => t.id # u.id

\* C12: a thread that holds a unit of its pool, a worker between
\* quantum_processors.acquire() and release() or a handler between
\* server_capacity.acquire() and release(), never finds the mutex it has to
\* take next, output_mutex or cout_mutex, held by another thread.
HoldersNeverWait ==
    /\ \A w \in Holders : output_mutex = NoThread
    /\ \A h \in DataHolders : cout_mutex = NoThread

\* task a comes strictly before task b in the order of the queue
TaskBefore(a, b) ==
    \/ a.priority < b.priority
    \/ /\ a.priority = b.priority
       /\ \/ a.is_critical /\ ~b.is_critical
          \/ /\ a.is_critical = b.is_critical
             /\ a.duration < b.duration

\* C13: with workers that pop while others push halves, a pop is one step
\* that takes exactly one task out of the queue, a task before which no task
\* of the queue comes in the order (priority, critical first, duration), and
\* gives it to the popping worker alone; every task pushed is at every time
\* in exactly one place (the queue, one worker, reported or split), so no
\* task is held by two workers or run twice.
PopsAtomicInRank ==
    /\ [](pushed = task_queue (+) InFlight(WorkerIds) (+) completed
                      (+) failed_tasks (+) split_parents)
    /\ [][\A w \in WorkerIds :
             (pc[w] = "pop" /\ pc'[w] # "pop") =>
                /\ \A v \in WorkerIds \ {w} :
                      task'[v] = task[v] /\ pc'[v] = pc[v]
                /\ IF task_queue = EmptyBag
                   THEN /\ pc'[w] = "done"
                        /\ task'[w] = NoTask
                        /\ task_queue' = task_queue
                   ELSE /\ pc'[w] \in {"split_print", "dispatch"}
                        /\ BagIn(task'[w], task_queue)
                        /\ task_queue' (+) SetToBag({task'[w]}) = task_queue
                        /\ \A x \in BagToSet(task_queue) :
                              ~TaskBefore(x, task'[w])]_vars

\* a worker holds a half, pushed while the workers were running, that came
\* out before a task of main of lower rank that is still in the queue
HalfOvertook ==
    \E w \in WorkerIds :
       /\ task[w].is_split
       /\ \E x \in BagToSet(task_queue) :
             ~x.is_split /\ TaskBefore(task[w], x)


\* main started every thread and every worker it started left its loop
Terminated ==
    /\ main_pc \in {"joining", "exited"}
    /\ \A w \in WorkerIds : pc[w] \in {"unborn", "done"}

\* C15: when main and the workers are scheduled fairly, every worker
\* sooner or later finds the queue empty and leaves its loop, whether the
\* failure of the processor is injected or not; and whenever all workers
\* have left, task_queue is empty and all 4 processors are free.
WorkersTerminate ==
    /\ <>Terminated
    /\ [](Terminated => (task_queue = EmptyBag /\ quantum_processors = 4))

\* all workers left their loop in a run where the failure was injected and
\* a task was reported failed
TerminatedAfterFailure ==
    /\ Terminated
    /\ failed_processor = 2
    /\ failed_tasks # EmptyBag

\* worker w cannot take its next step: it waits for queue_mutex, for
\* output_mutex or for a processor
Waiting(w) ==
    \/ pc[w] \in {"pop", "split_lock"} /\ queue_mutex # NoThread
    \/ /\ pc[w] \in {"split_print", "report_failed", "run", "print_completed"}
       /\ output_mutex # NoThread
    \/ pc[w] = "acquire" /\ quantum_processors = 0

\* the workers that hold what w waits for
WaitsFor(w) ==
    IF pc[w] \in {"pop", "split_lock"} THEN {queue_mutex}
    ELSE IF pc[w] = "acquire" THEN Holders
    ELSE {output_mutex}

\* C18: in the program as main wires it there is no set of workers that
\* each wait for queue_mutex, output_mutex or a processor which only workers
\* of the set hold (or which nobody holds and nobody can give back): some
\* worker of every set either can take its step or waits for something that
\* a thread outside the set holds.
NoCircularWait ==
    \A S \in (SUBSET WorkerIds) \ {{}} :
       \E w \in S : ~Waiting(w) \/ ~(WaitsFor(w) \subseteq S)

\* both lock orders are in use and workers wait, yet not in a circle: a
\* worker in the split branch holds output_mutex and is about to take
\* queue_mutex, a worker that holds a processor waits for output_mutex, and
\* a third is about to take queue_mutex for its pop
ContendedNoCircle ==
    \E w1 \in WorkerIds, w2 \in WorkerIds, w3 \in WorkerIds :
       /\ pc[w1] = "split_lock" /\ output_mutex = w1
       /\ pc[w2] = "run"
       /\ pc[w3] = "pop"

(***************************************************************************)
(* The adaptation step of load_monitor (current_load = load and the        *)
(* if / else if that follows) on its own: it starts from any sampled load  *)
(* that is a percentage in steps of 20, any capacity and any counter of    *)
(* the semaphore, while the stations and the handlers run, and the monitor *)
(* stops where the adaptation is over.                                     *)
(***************************************************************************)
\* the loads the step is applied to
AdaptLoads == {0, 20, 40, 60, 80, 100}

InitAdapt ==
    /\ InitQ
    /\ InitR
    /\ data_queue = EmptyBag
    /\ server_capacity \in 0 .. ServerCapacity
    /\ cout_mutex = NoThread
    /\ current_load = 0
    /\ emergency_mode = FALSE
    /\ active_handlers \in MinHandlers .. MaxHandlers
    /\ emergency_counter = 0
    /\ station_pc = [s \in StationIds |-> "generate"]
    /\ station_data = [s \in StationIds |-> NoData]
    /\ handler_pc = [h \in HandlerIds |-> "pop"]
    /\ monitor_pc = "store"
    /\ load \in AdaptLoads
    /\ probe_i = 0
    /\ aborted = FALSE
    /\ streak = 0

NextAdapt ==
    \/ \E s \in StationIds :
          monitoring_station(s, ServerPriorities, ServerCriticals)
    \/ \E h \in 1 .. NumHandlers : data_handler(h)
    \/ StoreLoad
    \/ Resize
    \/ ResizePrint

SpecAdapt == InitAdapt /\ [][NextAdapt]_vars

\* C14: the adaptation step changes the capacity by at most one: with
\* load > 80 and active_handlers < 10 it adds exactly 1 to active_handlers
\* and then calls release() once; else with load < 50 and active_handlers > 5
\* it takes exactly 1 from active_handlers and then acquires one unit from
\* the counter, waiting while the counter is 0 and taking no unit from a
\* handler; otherwise it changes neither active_handlers nor the counter.
\* active_handlers changes nowhere else.  release() adds one unit to the
\* counter, unless the counter is at the maximum of the semaphore already,
\* where the process may end instead.
AdaptsByOne ==
    [][/\ (monitor_pc = "store" /\ monitor_pc' # "store") =>
             /\ server_capacity' = server_capacity
             /\ IF load > 80 /\ active_handlers < 10
                THEN /\ active_handlers' = active_handlers + 1
                     /\ monitor_pc' = "grow"
                ELSE IF load < 50 /\ active_handlers > 5
                THEN /\ active_handlers' = active_handlers - 1
                     /\ monitor_pc' = "shrink"
                ELSE /\ active_handlers' = active_handlers
                     /\ monitor_pc' = "emergency"
       /\ (monitor_pc = "grow" /\ monitor_pc' # "grow") =>
             /\ monitor_pc' = "resize_print"
             /\ \/ server_capacity' = server_capacity + 1
                \/ server_capacity >= 5 /\ aborted'
       /\ (monitor_pc = "shrink" /\ monitor_pc' # "shrink") =>
             /\ monitor_pc' = "resize_print"
             /\ server_capacity > 0
             /\ server_capacity' = server_capacity - 1
             /\ handler_pc' = handler_pc
       /\ (monitor_pc = "resize_print" /\ monitor_pc' # "resize_print") =>
             /\ monitor_pc' = "emergency"
             /\ server_capacity' = server_capacity
       /\ (active_handlers' # active_handlers) => monitor_pc = "store"]_vars

\* the capacity was taken from 10 to 9 at a load below 50 while a handler
\* held a unit, and the handler still holds it
ShrunkByOne ==
    /\ monitor_pc = "emergency"
    /\ load < 50
    /\ active_handlers = 9
    /\ DataHolders # {}


(***************************************************************************)
(* Further properties of the monitoring server.                            *)
(***************************************************************************)
\* a unit can still come to the counter: a handler holds one and will
\* release it, the monitor is about to release one, or the monitor can
\* still add a handler
UnitToCome ==
    \/ DataHolders # {}
    \/ monitor_pc \in {"grow", "probe_release"}
    \/ active_handlers < 10

\* C16: a handler that popped data and waits in server_capacity.acquire()
\* is never left waiting for ever: whenever the counter is 0 there is a unit
\* still to come to it.
PoppedDataGetsServer ==
    \A h \in HandlerIds :
       (handler_pc[h] = "acquire" /\ server_capacity = 0 /\ ~aborted)
          => UnitToCome


(***************************************************************************)
(* The two programs side by side: either the quantum program runs and the  *)
(* monitoring server is not started, or the monitoring server runs and the *)
(* quantum program is not started.                                         *)
(***************************************************************************)
NextSignals ==
    \/ InitM /\ Next
    \/ InitQ /\ NextM

SpecSignals == Init /\ [][NextSignals]_vars

\* the three signals
Signals == <<failed_processor, current_load, emergency_mode>>

\* C17: failed_processor changes in one step only, the store of
\* simulate_processor_failure, which takes it from -1 to the id of the
\* failed processor, after which it never changes; current_load and
\* emergency_mode change only in steps of load_monitor; a step of a worker,
\* of main, of a station or of a handler changes none of the three.
SingleWriter ==
    [][/\ (failed_processor' # failed_processor) =>
             /\ fail_pc = "sleeping"
             /\ fail_pc' # "sleeping"
             /\ failed_processor = -1
             /\ failed_processor' = 2
       /\ (failed_processor # -1) => failed_processor' = failed_processor
       /\ (current_load' # current_load \/ emergency_mode' # emergency_mode)
             => monitor_pc' # monitor_pc
       /\ (pc' # pc \/ task' # task \/ main_pc' # main_pc
              \/ n_added' # n_added \/ n_spawned' # n_spawned
              \/ station_pc' # station_pc \/ handler_pc' # handler_pc)
             => Signals' = Signals]_vars

\* the failure was stored while a worker was running a task, and a task was
\* reported failed afterwards
FailureStoredMidRun ==
    /\ failed_processor = 2
    /\ failed_tasks # EmptyBag
    /\ completed # EmptyBag


\* C19: the counter of server_capacity stays within 0..5, the maximum the
\* semaphore is declared with.
CounterWithinMax ==
    /\ 0 <= server_capacity
    /\ server_capacity <= 5

=============================================================================
